---- MODULE Spec2Model ----
(***************************************************************************)
(* Smart Parking Lot System: spot allocation, entry/exit workflow and the  *)
(* transaction ledger, as implemented by EntryService, ExitService,        *)
(* SpotAllocationService, the spot allocator and the repositories.         *)
(*                                                                         *)
(* Every `await` of processEntry / processExit is one atomic database      *)
(* operation; request handlers interleave between awaits (no lock and no   *)
(* database transaction is taken by the code).                             *)
(*                                                                         *)
(* Money is counted in mills (1/1000 USD), time in milliseconds.           *)
(***************************************************************************)
EXTENDS Integers, Sequences, FiniteSets, TLC

\* ------------------------------------------------------------------ bounds
NumProcs == 2        \* request handlers that may be in flight together
MaxRequests == 3     \* requests started in one behaviour
MaxTicks == 1        \* clock advances in one behaviour
TickMinutes == 75    \* minutes the clock advances by in one tick
MaxRejected == 2     \* requests a client sends beyond the limit of a window
LightLoad == 2       \* requests of the keyless client in one window
MaxWindowTicks == 3  \* clock advances at the rate limiter
TicksPerWindow == 2  \* clock advances that make one window
MaxAttempts == 4     \* largest maxAttempts passed to retryWithBackoff

\* --------------------------------------------------------------- constants
MsPerMinute == 60000
Null == -1           \* null: an unset reference or an unset document field

Procs == 1..NumProcs
Plates == {"P1", "P2"}
SpotTypes == {"MOTORCYCLE", "CAR", "BUS"}
VehicleTypes == {"MOTORCYCLE", "CAR", "BUS"}
RequestTypes == {"MOTORCYCLE", "BUS"}   \* vehicle types of the entry requests issued

\* Provisioned inventory (provisioning itself is outside the program): the
\* static part of every ParkingSpot document.
SpotIds == {1, 2, 3, 4, 5}
floor_number == (1 :> 1 @@ 2 :> 1 @@ 3 :> 1 @@ 4 :> 2 @@ 5 :> 2)
spot_number == (1 :> 1 @@ 2 :> 2 @@ 3 :> 3 @@ 4 :> 1 @@ 5 :> 2)
spot_type == (1 :> "MOTORCYCLE" @@ 2 :> "CAR" @@ 3 :> "BUS" @@ 4 :> "MOTORCYCLE" @@ 5 :> "CAR")
SpotStatuses == {"AVAILABLE", "OCCUPIED", "MAINTENANCE"}
\* The lot when the service starts: one CAR and one BUS spot in service.
InitialStatus == (1 :> "MAINTENANCE" @@ 2 :> "AVAILABLE" @@ 3 :> "AVAILABLE"
                  @@ 4 :> "MAINTENANCE" @@ 5 :> "MAINTENANCE")

\* Rate cards of the pricing example, in mills.
PricingExample ==
  [t \in VehicleTypes |->
     [hourly_rate |-> CASE t = "MOTORCYCLE" -> 5000 [] t = "CAR" -> 8000 [] OTHER -> 15000,
      daily_max_rate |-> CASE t = "MOTORCYCLE" -> 30000 [] t = "CAR" -> 50000 [] OTHER -> 100000,
      grace_period_minutes |-> 15,
      rounding_strategy |-> "CEILING"]]

VARIABLES
  vehicles,      \* Vehicle collection: plate -> document, or NoVehicle
  spots,         \* ParkingSpot collection: id -> [status, current_vehicle_id]
  transactions,  \* ParkingTransaction collection, in insertion order
  lot,           \* the ParkingLot document: derived counters per type
  rateCards,     \* RateCard collection: vehicle type -> rate card
  now,           \* wall clock (ms), read by `new Date()`
  ticks,         \* number of clock advances so far
  task,          \* per handler: position and locals of processEntry/processExit
  started,       \* number of requests started so far
  admitted,      \* number of entry requests answered with success so far
  rateLimiter,   \* the RateLimiter singleton: its `requests` map, and the last response
  retry          \* one invocation of retryWithBackoff: position, locals, calls made

vars == <<vehicles, spots, transactions, lot, rateCards, now, ticks, task, started, admitted,
          rateLimiter, retry>>

NoVehicle == [vehicle_type |-> "NONE", is_currently_parked |-> FALSE]
NoRateCard == [hourly_rate |-> Null, daily_max_rate |-> Null, grace_period_minutes |-> Null,
               rounding_strategy |-> "NONE"]
NoFee == [duration_minutes |-> Null, parking_fee |-> Null]

IdleTask ==
  [pc |-> "idle", op |-> "NONE", license_plate |-> "NONE", vehicle_type |-> "NONE",
   vehicle |-> NoVehicle, availableSpots |-> <<>>, allocatedSpot |-> Null, entryTime |-> Null,
   transaction |-> Null, exitTime |-> Null, feeDetails |-> NoFee, result |-> "NONE"]

\* No entry of the `requests` map for a client; no response sent yet.
NoClient == [count |-> Null, resetTime |-> Null]
NoResponse == [client |-> "NONE", limit |-> Null, remaining |-> Null, reset |-> Null,
               status |-> Null, code |-> "NONE", passed |-> FALSE]

\* -------------------------------------------------------- pure functions

Count(S) == Cardinality(S)

\* getEligibleSpotTypes with the CAR row of the hierarchy widened to every type.
getEligibleSpotTypes_CarAnywhere(vehicleType) ==
  CASE vehicleType = "MOTORCYCLE" -> {"MOTORCYCLE", "CAR", "BUS"}
    [] vehicleType = "CAR" -> {"MOTORCYCLE", "CAR", "BUS"}
    [] vehicleType = "BUS" -> {"BUS"}
    [] OTHER -> {}

\* spotAllocator.getEligibleSpotTypes
getEligibleSpotTypes(vehicleType) ==
  CASE vehicleType = "MOTORCYCLE" -> {"MOTORCYCLE", "CAR", "BUS"}
    [] vehicleType = "CAR" -> {"CAR", "BUS"}
    [] vehicleType = "BUS" -> {"BUS"}
    [] OTHER -> {}

\* spotAllocator.getSpotTypePriority
getSpotTypePriority(spotType) ==
  CASE spotType = "MOTORCYCLE" -> 1
    [] spotType = "CAR" -> 2
    [] spotType = "BUS" -> 3
    [] OTHER -> 999

\* The comparator without its primary key, the floor number.
SortsBefore_NoFloor(a, b) ==
  IF getSpotTypePriority(spot_type[a]) # getSpotTypePriority(spot_type[b])
    THEN getSpotTypePriority(spot_type[a]) < getSpotTypePriority(spot_type[b])
  ELSE spot_number[a] < spot_number[b]

\* The comparator of sortSpotsByPriority: a sorts strictly before b.
SortsBefore(a, b) ==
  IF floor_number[a] # floor_number[b] THEN floor_number[a] < floor_number[b]
  ELSE IF getSpotTypePriority(spot_type[a]) # getSpotTypePriority(spot_type[b])
       THEN getSpotTypePriority(spot_type[a]) < getSpotTypePriority(spot_type[b])
       ELSE spot_number[a] < spot_number[b]

\* The sort of the query of findAvailableByTypes: floor_number, spot_type and
\* spot_number ascending; spot_type is a string, so BUS < CAR < MOTORCYCLE.
QueryTypeRank(spotType) ==
  CASE spotType = "BUS" -> 1
    [] spotType = "CAR" -> 2
    [] OTHER -> 3

QuerySortsBefore(a, b) ==
  IF floor_number[a] # floor_number[b] THEN floor_number[a] < floor_number[b]
  ELSE IF QueryTypeRank(spot_type[a]) # QueryTypeRank(spot_type[b])
       THEN QueryTypeRank(spot_type[a]) < QueryTypeRank(spot_type[b])
       ELSE spot_number[a] < spot_number[b]

\* The documents of a result set, in the order of the query's sort.
RECURSIVE QueryOrder(_)
QueryOrder(S) ==
  IF S = {} THEN <<>>
  ELSE CHOOSE result \in
         {<<first>> \o QueryOrder(S \ {first}) :
            first \in {s \in S : \A o \in S \ {s} : QuerySortsBefore(s, o)}} : TRUE

\* ParkingSpotRepository.findAvailableByTypes: the AVAILABLE spots of one of
\* the given types in the collection state sp, as a sorted array of ids.
findAvailableByTypes(sp, spotTypes) ==
  QueryOrder({s \in SpotIds : spot_type[s] \in spotTypes /\ sp[s].status = "AVAILABLE"})

\* sortSpotsByPriority leaving the array in the order it was given.
sortSpotsByPriority_Unsorted(spotSeq) == spotSeq

\* One insertion of the (stable) Array.prototype.sort under the comparator:
\* x goes before the first element it sorts strictly before (arr is the
\* array sorted so far, evaluated once).
InsertSpot(sorted, x) ==
  CHOOSE result \in
      {LET after == {i \in 1..Len(arr) : SortsBefore(x, arr[i])}
           k == IF after = {} THEN Len(arr) + 1
                ELSE CHOOSE i \in after : \A j \in after : i <= j
       IN SubSeq(arr, 1, k - 1) \o <<x>> \o SubSeq(arr, k, Len(arr)) :
         arr \in {sorted}} : TRUE

\* spotAllocator.sortSpotsByPriority
RECURSIVE sortSpotsByPriority(_)
sortSpotsByPriority(spotSeq) ==
  CHOOSE result \in
      {IF arr = <<>> THEN <<>>
       ELSE InsertSpot(sortSpotsByPriority(SubSeq(arr, 1, Len(arr) - 1)), arr[Len(arr)]) :
         arr \in {spotSeq}} : TRUE

\* spotAllocator.selectOptimalSpot over an array of spot documents (ids; the
\* status of a document is its status in sp): filter, sort, first element,
\* Null for null.
selectOptimalSpot(sp, vehicleType, availableSpots) ==
  LET eligibleTypes == getEligibleSpotTypes(vehicleType)
      matchingSpots == SelectSeq(availableSpots,
                                 LAMBDA s : spot_type[s] \in eligibleTypes /\ sp[s].status = "AVAILABLE")
  IN IF availableSpots = <<>> THEN Null
     ELSE IF matchingSpots = <<>> THEN Null
     ELSE sortSpotsByPriority(matchingSpots)[1]

\* allocateSpot that offers every spot nobody occupies, in service or not.
allocateSpot_IgnoresStatus(sp, vehicleType) ==
  LET eligibleTypes == getEligibleSpotTypes(vehicleType)
      unoccupied == QueryOrder({s \in SpotIds : spot_type[s] \in eligibleTypes
                                                  /\ sp[s].status # "OCCUPIED"})
  IN IF unoccupied = <<>> THEN Null ELSE sortSpotsByPriority(unoccupied)[1]

\* SpotAllocationService.allocateSpot
allocateSpot(sp, vehicleType) ==
  LET availableSpots == findAvailableByTypes(sp, getEligibleSpotTypes(vehicleType))
  IN IF availableSpots = <<>> THEN Null ELSE selectOptimalSpot(sp, vehicleType, availableSpots)

\* Number.toFixed(2) followed by parseFloat, on an amount in mills.
toFixed2(mills) == ((mills + 5) \div 10) * 10

\* The interval check of calculateParkingFee (it throws when this is false).
validInterval_AllowsEqual(entryTime, exitTime) == exitTime >= entryTime

validInterval_Any(entryTime, exitTime) == TRUE

validInterval(entryTime, exitTime) == ~(exitTime <= entryTime)

\* Step 2 of calculateParkingFee: the stay is absorbed by the grace period.
withinGracePeriod_Never(durationMinutes, grace) == FALSE

withinGracePeriod(durationMinutes, grace) == durationMinutes <= grace

\* Step 3 of calculateParkingFee: Math.ceil, Math.floor or Math.round of
\* adjustedMinutes / 60 (Math.round rounds .5 up).
roundHourlyUnits_AlwaysCeiling(adjustedMinutes, strategy) == (adjustedMinutes + 59) \div 60

\* roundHourlyUnits rounding down for a strategy it does not know.
roundHourlyUnits_UnknownIsFloor(adjustedMinutes, strategy) ==
  CASE strategy = "CEILING" -> (adjustedMinutes + 59) \div 60
    [] strategy = "ROUND" -> (adjustedMinutes + 30) \div 60
    [] OTHER -> adjustedMinutes \div 60

roundHourlyUnits(adjustedMinutes, strategy) ==
  CASE strategy = "CEILING" -> (adjustedMinutes + 59) \div 60
    [] strategy = "FLOOR" -> adjustedMinutes \div 60
    [] strategy = "ROUND" -> (adjustedMinutes + 30) \div 60
    [] OTHER -> (adjustedMinutes + 59) \div 60

\* Step 5 of calculateParkingFee: the condition of the daily cap, and the fee
\* it leaves.
dailyCapApplies_Never(baseFee, daily_max_rate) == FALSE

dailyCapApplies(baseFee, daily_max_rate) == daily_max_rate # Null /\ baseFee > daily_max_rate

applyDailyCap_WrapsAround(baseFee, daily_max_rate) ==
  IF dailyCapApplies(baseFee, daily_max_rate) THEN baseFee - daily_max_rate ELSE baseFee

applyDailyCap(baseFee, daily_max_rate) ==
  IF dailyCapApplies(baseFee, daily_max_rate) THEN daily_max_rate ELSE baseFee

\* The destructuring of the rate card: rounding_strategy = 'CEILING' when the
\* property is undefined (a missing property reads as "UNDEFINED" here); any
\* other value, null or an unknown name included, is passed on as it is.
defaultRoundingStrategy(rounding_strategy) ==
  IF rounding_strategy = "UNDEFINED" THEN "CEILING" ELSE rounding_strategy

\* feeCalculator.calculateParkingFee
calculateParkingFee(entryTime, exitTime, rateCard) ==
  LET durationMinutes == (exitTime - entryTime) \div MsPerMinute
      grace == rateCard.grace_period_minutes
      adjustedMinutes == durationMinutes - grace
      hourlyUnits == roundHourlyUnits(adjustedMinutes,
                                      defaultRoundingStrategy(rateCard.rounding_strategy))
      baseFee == hourlyUnits * rateCard.hourly_rate
      capped == dailyCapApplies(baseFee, rateCard.daily_max_rate)
      finalFee == toFixed2(applyDailyCap(baseFee, rateCard.daily_max_rate))
  IN IF ~validInterval(entryTime, exitTime)
       THEN [ok |-> FALSE, duration_minutes |-> Null, adjusted_minutes |-> 0, hourly_units |-> 0,
             base_fee |-> 0, daily_cap_applied |-> FALSE, parking_fee |-> Null]
     ELSE IF withinGracePeriod(durationMinutes, grace)
       THEN [ok |-> TRUE, duration_minutes |-> durationMinutes, adjusted_minutes |-> 0,
             hourly_units |-> 0, base_fee |-> 0, daily_cap_applied |-> FALSE, parking_fee |-> 0]
     ELSE [ok |-> TRUE, duration_minutes |-> durationMinutes, adjusted_minutes |-> adjustedMinutes,
           hourly_units |-> hourlyUnits, base_fee |-> toFixed2(baseFee),
           daily_cap_applied |-> capped, parking_fee |-> finalFee]

\* ------------------------------------------------------------ ledger views

TxIds == 1..Len(transactions)
IsOpen(t) == transactions[t].exit_time = Null
OpenTxOf(plate) == {t \in TxIds : transactions[t].vehicle_id = plate /\ IsOpen(t)}
OpenTxOn(s) == {t \in TxIds : transactions[t].spot_id = s /\ IsOpen(t)}

\* ----------------------------------------------------------- rate limiter

\* new RateLimiter(1000, 60000): the singleton the application registers.
maxRequests == 1000
windowMs == 60000

\* Clients of the API: requests carry the header x-api-key K1, or no key and
\* come from the address IP1.
ApiKeys == {"K1", "NONE"}
IpAddresses == {"IP1"}
Clients == {"K1", "IP1"}

\* `req.headers['x-api-key'] || req.ip`
clientId(apiKey, ip) == IF apiKey # "NONE" THEN apiKey ELSE ip

\* The constructor: an empty `requests` map.
NewRateLimiter == [requests |-> [c \in Clients |-> NoClient], res |-> NoResponse]

\* windowExpired that never starts a new window for a known client.
windowExpired_Never(clientData, t) == clientData = NoClient

\* `!clientData || now - clientData.resetTime > this.windowMs`
windowExpired(clientData, t) ==
  clientData = NoClient \/ t - clientData.resetTime > windowMs

\* `clientData.count > this.maxRequests`
limitExceeded(count) == count > maxRequests

\* RateLimiter.cleanup: the entries whose window has expired are deleted.
cleanup(requests, t) ==
  [c \in Clients |->
     IF requests[c] # NoClient /\ t - requests[c].resetTime > windowMs
       THEN NoClient ELSE requests[c]]

\* RateLimiter.middleware for a request of clientId at time t: the map and
\* the response state after it.  runCleanup is the outcome of
\* `Math.random() < 0.01`, drawn only when the request is passed on.
middleware(limiter, client, t, runCleanup) ==
  LET found == limiter.requests[client]
      started0 == IF windowExpired(found, t) THEN [count |-> 0, resetTime |-> t] ELSE found
      clientData == [started0 EXCEPT !.count = @ + 1]
      counted == [limiter.requests EXCEPT ![client] = clientData]
      remaining == IF maxRequests - clientData.count > 0
                     THEN maxRequests - clientData.count ELSE 0
      headers == [client |-> client, limit |-> maxRequests, remaining |-> remaining,
                  reset |-> clientData.resetTime + windowMs,
                  status |-> Null, code |-> "NONE", passed |-> FALSE]
  IN IF limitExceeded(clientData.count)
       THEN [requests |-> counted,
             res |-> [headers EXCEPT !.status = 429, !.code = "RATE_LIMIT_EXCEEDED"]]
     ELSE [requests |-> IF runCleanup THEN cleanup(counted, t) ELSE counted,
           res |-> [headers EXCEPT !.passed = TRUE]]

\* ------------------------------------------------------- retryWithBackoff

\* retryWithBackoff(fn, maxAttempts = 3, initialDelay = 100)
defaultMaxAttempts == 3
defaultInitialDelay == 100

\* An argument is <<>> when the caller leaves it out and <<v>> when it is v.
parameter(arg, default) == IF arg = <<>> THEN default ELSE arg[1]

\* No invocation yet.  `calls` is the history of the calls of fn, each with
\* its outcome; `delays` the delays slept so far; `result` and `thrown` the
\* value returned and the error thrown by retryWithBackoff.
NoRetry ==
  [pc |-> "idle", maxAttempts |-> Null, initialDelay |-> Null, attempt |-> Null,
   lastError |-> Null, calls |-> <<>>, delays |-> <<>>, result |-> Null, thrown |-> Null]

\* initialDelay * attempt instead of initialDelay * 2^(attempt - 1).
backoffDelay_Linear(initialDelay, attempt) == initialDelay * attempt

\* const delay = initialDelay * Math.pow(2, attempt - 1)
backoffDelay(initialDelay, attempt) == initialDelay * 2^(attempt - 1)

\* ------------------------------------------------------------------- Init

\* The counters of a lot document that agrees with the spot collection sp.
CountersOf(sp) ==
  [available |-> [t \in SpotTypes |->
                    Count({s \in SpotIds : spot_type[s] = t /\ sp[s].status = "AVAILABLE"})],
   occupied |-> [t \in SpotTypes |->
                   Count({s \in SpotIds : spot_type[s] = t /\ sp[s].status = "OCCUPIED"})]]

Init ==
  /\ vehicles = [p \in Plates |-> NoVehicle]
  /\ spots = [s \in SpotIds |-> [status |-> InitialStatus[s], current_vehicle_id |-> "NONE"]]
  /\ transactions = <<>>
  /\ lot = CountersOf(spots)
  /\ rateCards = PricingExample
  /\ now = MsPerMinute
  /\ ticks = 0
  /\ task = [p \in Procs |-> IdleTask]
  /\ started = 0
  /\ admitted = 0
  /\ rateLimiter = NewRateLimiter
  /\ retry = NoRetry

\* The handler returns or throws: its outcome is the error code, or SUCCESS.
Finish(p, res) == task' = [task EXCEPT ![p].pc = "done", ![p].result = res]

Db == <<vehicles, spots, transactions, lot, rateCards>>
Env == <<now, ticks, started, admitted, rateLimiter, retry>>

\* ------------------------------------------------------------ environment

InFlight(p) == task[p].pc \notin {"idle", "done"}

\* Handlers are interchangeable: a new request runs on the first free one.
Free(p) == task[p].pc = "idle" /\ \A q \in Procs : q < p => InFlight(q)

\* The response of a finished handler is delivered before anything else
\* happens (delivery touches nothing but the handler itself).
Quiet == \A q \in Procs : task[q].pc # "done"

\* The controller sends the response; the handler is free again.
Return(p) ==
  /\ task[p].pc = "done"
  /\ task' = [task EXCEPT ![p] = IdleTask]
  /\ UNCHANGED <<Db, Env>>

\* The wall clock advances.
Tick ==
  /\ Quiet
  /\ ticks < MaxTicks
  /\ now' = now + TickMinutes * MsPerMinute
  /\ ticks' = ticks + 1
  /\ UNCHANGED <<Db, task, started, admitted, rateLimiter, retry>>

\* POST /parking/entry reaches EntryService.processEntry.
StartEntry(p) ==
  /\ Quiet /\ Free(p)
  /\ started < MaxRequests
  /\ \E plate \in Plates, vt \in RequestTypes :
       task' = [task EXCEPT ![p] = [IdleTask EXCEPT !.pc = "E1", !.op = "ENTRY",
                                                    !.license_plate = plate, !.vehicle_type = vt]]
  /\ started' = started + 1
  /\ UNCHANGED <<Db, now, ticks, admitted, rateLimiter, retry>>

\* POST /parking/exit reaches ExitService.processExit.
StartExit(p) ==
  /\ Quiet /\ Free(p)
  /\ started < MaxRequests
  /\ \E plate \in Plates :
       task' = [task EXCEPT ![p] = [IdleTask EXCEPT !.pc = "X1", !.op = "EXIT",
                                                    !.license_plate = plate]]
  /\ started' = started + 1
  /\ UNCHANGED <<Db, now, ticks, admitted, rateLimiter, retry>>

\* ------------------------------------------------- EntryService.processEntry

\* Step 1: findByLicensePlate and the already-parked check.
EntryFindVehicle(p) ==
  LET existingVehicle == vehicles[task[p].license_plate] IN
  /\ Quiet /\ task[p].pc = "E1"
  /\ IF existingVehicle # NoVehicle /\ existingVehicle.is_currently_parked
       THEN Finish(p, "VEHICLE_ALREADY_PARKED")
     ELSE IF existingVehicle # NoVehicle
       THEN task' = [task EXCEPT ![p].pc = "E3", ![p].vehicle = existingVehicle]
     ELSE task' = [task EXCEPT ![p].pc = "E2"]
  /\ UNCHANGED <<Db, Env>>

\* Step 2: vehicleRepository.create; license_plate carries a unique index.
EntryCreateVehicle(p) ==
  LET plate == task[p].license_plate
      doc == [vehicle_type |-> task[p].vehicle_type, is_currently_parked |-> FALSE] IN
  /\ Quiet /\ task[p].pc = "E2"
  /\ IF vehicles[plate] # NoVehicle
       THEN Finish(p, "DUPLICATE_KEY") /\ UNCHANGED vehicles
     ELSE /\ vehicles' = [vehicles EXCEPT ![plate] = doc]
          /\ task' = [task EXCEPT ![p].pc = "E3", ![p].vehicle = doc]
  /\ UNCHANGED <<spots, transactions, lot, rateCards, Env>>

\* EntryAllocateSpot that puts the request in a queue, when the lot is
\* full, instead of answering NO_SPOT_AVAILABLE.
EntryAllocateSpot_WaitsForSpot(p) ==
  LET allocatedSpot == allocateSpot(spots, task[p].vehicle_type) IN
  /\ Quiet /\ task[p].pc = "E3"
  /\ IF allocatedSpot = Null
       THEN task' = [task EXCEPT ![p].pc = "queued"]
     ELSE task' = [task EXCEPT ![p].pc = "E4", ![p].allocatedSpot = allocatedSpot,
                               ![p].entryTime = now]
  /\ UNCHANGED <<Db, Env>>

\* Step 3: spotAllocationService.allocateSpot(vehicle_type); the spot is only
\* read, nothing is written to it here.  Then `entryTime = new Date()`.
EntryAllocateSpot(p) ==
  LET allocatedSpot == allocateSpot(spots, task[p].vehicle_type) IN
  /\ Quiet /\ task[p].pc = "E3"
  /\ IF allocatedSpot = Null
       THEN Finish(p, "NO_SPOT_AVAILABLE")
     ELSE task' = [task EXCEPT ![p].pc = "E4", ![p].allocatedSpot = allocatedSpot,
                               ![p].entryTime = now]
  /\ UNCHANGED <<Db, Env>>

\* Step 4: transactionRepository.create.
EntryCreateTransaction(p) ==
  /\ Quiet /\ task[p].pc = "E4"
  /\ transactions' = Append(transactions,
        [vehicle_id |-> task[p].license_plate, spot_id |-> task[p].allocatedSpot,
         entry_time |-> task[p].entryTime, exit_time |-> Null, duration_minutes |-> Null,
         parking_fee |-> Null, payment_status |-> "PENDING"])
  /\ task' = [task EXCEPT ![p].pc = "E5", ![p].transaction = Len(transactions) + 1]
  /\ UNCHANGED <<vehicles, spots, lot, rateCards, Env>>

\* updateStatus writing nothing at all when the vehicleId argument is null.
updateStatus_NothingOnNull(sp, spotId, status, vehicleId) ==
  IF vehicleId # "NONE"
    THEN [sp EXCEPT ![spotId] = [status |-> status, current_vehicle_id |-> vehicleId]]
  ELSE sp

\* ParkingSpotRepository.updateStatus: current_vehicle_id is written only
\* when the vehicleId argument is not null.
updateStatus(sp, spotId, status, vehicleId) ==
  IF vehicleId # "NONE"
    THEN [sp EXCEPT ![spotId] = [status |-> status, current_vehicle_id |-> vehicleId]]
  ELSE [sp EXCEPT ![spotId].status = status]

\* Step 5: parkingSpotRepository.updateStatus(spot, 'OCCUPIED', vehicle._id).
EntryOccupySpot(p) ==
  /\ Quiet /\ task[p].pc = "E5"
  /\ spots' = updateStatus(spots, task[p].allocatedSpot, "OCCUPIED", task[p].license_plate)
  /\ task' = [task EXCEPT ![p].pc = "E6"]
  /\ UNCHANGED <<vehicles, transactions, lot, rateCards, Env>>

\* Step 6: vehicleRepository.updateParkingStatus(vehicle._id, true).
EntryMarkParked(p) ==
  /\ Quiet /\ task[p].pc = "E6"
  /\ vehicles' = [vehicles EXCEPT ![task[p].license_plate].is_currently_parked = TRUE]
  /\ task' = [task EXCEPT ![p].pc = "E7"]
  /\ UNCHANGED <<spots, transactions, lot, rateCards, Env>>

\* ParkingLotRepository.incrementOccupiedSpots: $inc of the two counters
\* named after the vehicle type.
incrementOccupiedSpots(l, vehicleType) ==
  [l EXCEPT !.occupied[vehicleType] = @ + 1, !.available[vehicleType] = @ - 1]

\* ParkingLotRepository.decrementOccupiedSpots.
decrementOccupiedSpots(l, vehicleType) ==
  [l EXCEPT !.occupied[vehicleType] = @ - 1, !.available[vehicleType] = @ + 1]

\* Step 7: findDefault (the lot document exists) and incrementOccupiedSpots
\* with the vehicle_type of the request; then the handler returns.
EntryUpdateLot(p) ==
  /\ Quiet /\ task[p].pc = "E7"
  /\ lot' = incrementOccupiedSpots(lot, task[p].vehicle_type)
  /\ Finish(p, "SUCCESS")
  /\ admitted' = admitted + 1
  /\ UNCHANGED <<vehicles, spots, transactions, rateCards, now, ticks, started, rateLimiter, retry>>

\* --------------------------------------------------- ExitService.processExit

\* ExitFindVehicle without the is_currently_parked check of step 2.
ExitFindVehicle_NoParkedCheck(p) ==
  LET vehicle == vehicles[task[p].license_plate] IN
  /\ Quiet /\ task[p].pc = "X1"
  /\ IF vehicle = NoVehicle THEN Finish(p, "VEHICLE_NOT_FOUND")
     ELSE task' = [task EXCEPT ![p].pc = "X3", ![p].vehicle = vehicle]
  /\ UNCHANGED <<Db, Env>>

\* ExitFindVehicle that clears the parked flag of the vehicle it finds before
\* the remaining checks are made.
ExitFindVehicle_MarksLeftFirst(p) ==
  LET vehicle == vehicles[task[p].license_plate] IN
  /\ Quiet /\ task[p].pc = "X1"
  /\ IF vehicle = NoVehicle THEN Finish(p, "VEHICLE_NOT_FOUND") /\ UNCHANGED vehicles
     ELSE IF ~vehicle.is_currently_parked THEN Finish(p, "ALREADY_EXITED") /\ UNCHANGED vehicles
     ELSE /\ task' = [task EXCEPT ![p].pc = "X3", ![p].vehicle = vehicle]
          /\ vehicles' = [vehicles EXCEPT ![task[p].license_plate].is_currently_parked = FALSE]
  /\ UNCHANGED <<spots, transactions, lot, rateCards, Env>>

\* Steps 1-2: findByLicensePlate, then the is_currently_parked check.
ExitFindVehicle(p) ==
  LET vehicle == vehicles[task[p].license_plate] IN
  /\ Quiet /\ task[p].pc = "X1"
  /\ IF vehicle = NoVehicle THEN Finish(p, "VEHICLE_NOT_FOUND")
     ELSE IF ~vehicle.is_currently_parked THEN Finish(p, "ALREADY_EXITED")
     ELSE task' = [task EXCEPT ![p].pc = "X3", ![p].vehicle = vehicle]
  /\ UNCHANGED <<Db, Env>>

\* Step 3: transactionRepository.findActiveByVehicleId: findOne without a
\* sort order returns any document with this vehicle_id and exit_time null.
\* Then `exitTime = new Date()`.
ExitFindTransaction(p) ==
  /\ Quiet /\ task[p].pc = "X3"
  /\ IF OpenTxOf(task[p].license_plate) = {}
       THEN Finish(p, "TRANSACTION_NOT_FOUND")
     ELSE \E t \in OpenTxOf(task[p].license_plate) :
            task' = [task EXCEPT ![p].pc = "X4", ![p].transaction = t,
                                 ![p].entryTime = transactions[t].entry_time,
                                 ![p].allocatedSpot = transactions[t].spot_id,
                                 ![p].exitTime = now]
  /\ UNCHANGED <<Db, Env>>

\* ExitCalculateFee falling back to the CAR rate card when the vehicle type
\* has none, instead of throwing DATABASE_ERROR.
ExitCalculateFee_DefaultRate(p) ==
  LET found == rateCards[task[p].vehicle.vehicle_type]
      rateCard == IF found = NoRateCard THEN PricingExample["CAR"] ELSE found
      feeDetails == calculateParkingFee(task[p].entryTime, task[p].exitTime, rateCard) IN
  /\ Quiet /\ task[p].pc = "X4"
  /\ IF ~feeDetails.ok THEN Finish(p, "INVALID_INTERVAL")
     ELSE task' = [task EXCEPT ![p].pc = "X5",
                               ![p].feeDetails = [duration_minutes |-> feeDetails.duration_minutes,
                                                  parking_fee |-> feeDetails.parking_fee]]
  /\ UNCHANGED <<Db, Env>>

\* Step 4: rateCardRepository.findByVehicleType(vehicle.vehicle_type), then
\* feeCalculationService.calculateFee, which throws on an invalid interval.
ExitCalculateFee(p) ==
  LET rateCard == rateCards[task[p].vehicle.vehicle_type]
      feeDetails == calculateParkingFee(task[p].entryTime, task[p].exitTime, rateCard) IN
  /\ Quiet /\ task[p].pc = "X4"
  /\ IF rateCard = NoRateCard THEN Finish(p, "DATABASE_ERROR")
     ELSE IF ~feeDetails.ok THEN Finish(p, "INVALID_INTERVAL")
     ELSE task' = [task EXCEPT ![p].pc = "X5",
                               ![p].feeDetails = [duration_minutes |-> feeDetails.duration_minutes,
                                                  parking_fee |-> feeDetails.parking_fee]]
  /\ UNCHANGED <<Db, Env>>

\* updateExit that also clears the spot reference of the transaction.
updateExit_ClearsSpot(txs, transactionId, exitData) ==
  [txs EXCEPT ![transactionId].exit_time = exitData.exit_time,
              ![transactionId].duration_minutes = exitData.duration_minutes,
              ![transactionId].parking_fee = exitData.parking_fee,
              ![transactionId].payment_status = exitData.payment_status,
              ![transactionId].spot_id = Null]

\* TransactionRepository.updateExit: findByIdAndUpdate writes the four exit
\* fields of the document with this id, whatever its current state.
updateExit(txs, transactionId, exitData) ==
  [txs EXCEPT ![transactionId].exit_time = exitData.exit_time,
              ![transactionId].duration_minutes = exitData.duration_minutes,
              ![transactionId].parking_fee = exitData.parking_fee,
              ![transactionId].payment_status = exitData.payment_status]

\* Step 5: transactionRepository.updateExit.
ExitCloseTransaction(p) ==
  /\ Quiet /\ task[p].pc = "X5"
  /\ transactions' = updateExit(transactions, task[p].transaction,
        [exit_time |-> task[p].exitTime, duration_minutes |-> task[p].feeDetails.duration_minutes,
         parking_fee |-> task[p].feeDetails.parking_fee, payment_status |-> "PENDING"])
  /\ task' = [task EXCEPT ![p].pc = "X6"]
  /\ UNCHANGED <<vehicles, spots, lot, rateCards, Env>>

\* Step 6: parkingSpotRepository.updateStatus(spot._id, 'AVAILABLE', null).
ExitReleaseSpot(p) ==
  /\ Quiet /\ task[p].pc = "X6"
  /\ spots' = updateStatus(spots, task[p].allocatedSpot, "AVAILABLE", "NONE")
  /\ task' = [task EXCEPT ![p].pc = "X7"]
  /\ UNCHANGED <<vehicles, transactions, lot, rateCards, Env>>

\* Step 7: vehicleRepository.updateParkingStatus(vehicle._id, false).
ExitMarkLeft(p) ==
  /\ Quiet /\ task[p].pc = "X7"
  /\ vehicles' = [vehicles EXCEPT ![task[p].license_plate].is_currently_parked = FALSE]
  /\ task' = [task EXCEPT ![p].pc = "X8"]
  /\ UNCHANGED <<spots, transactions, lot, rateCards, Env>>

\* Step 8: findDefault and decrementOccupiedSpots with the vehicle_type of
\* the vehicle record; then the handler returns.
ExitUpdateLot(p) ==
  /\ Quiet /\ task[p].pc = "X8"
  /\ lot' = decrementOccupiedSpots(lot, task[p].vehicle.vehicle_type)
  /\ Finish(p, "SUCCESS")
  /\ UNCHANGED <<vehicles, spots, transactions, rateCards, Env>>

Next ==
  \/ Tick
  \/ \E p \in Procs :
       \/ StartEntry(p) \/ EntryFindVehicle(p) \/ EntryCreateVehicle(p) \/ EntryAllocateSpot(p)
       \/ EntryCreateTransaction(p) \/ EntryOccupySpot(p) \/ EntryMarkParked(p) \/ EntryUpdateLot(p)
       \/ StartExit(p) \/ ExitFindVehicle(p) \/ ExitFindTransaction(p) \/ ExitCalculateFee(p)
       \/ ExitCloseTransaction(p) \/ ExitReleaseSpot(p) \/ ExitMarkLeft(p) \/ ExitUpdateLot(p)
       \/ Return(p)

Spec == Init /\ [][Next]_vars

TypeOK ==
  /\ \A s \in SpotIds : spots[s].status \in SpotStatuses
  /\ started \in 0..MaxRequests
  /\ Len(transactions) <= MaxRequests

\* ------------------------------------------------------------- scheduling

\* One step of the handler p: the continuation after an await, or the
\* delivery of its response.
HandlerStep(p) ==
  \/ EntryFindVehicle(p) \/ EntryCreateVehicle(p) \/ EntryAllocateSpot(p)
  \/ EntryCreateTransaction(p) \/ EntryOccupySpot(p) \/ EntryMarkParked(p) \/ EntryUpdateLot(p)
  \/ ExitFindVehicle(p) \/ ExitFindTransaction(p) \/ ExitCalculateFee(p)
  \/ ExitCloseTransaction(p) \/ ExitReleaseSpot(p) \/ ExitMarkLeft(p) \/ ExitUpdateLot(p)
  \/ Return(p)

\* The database answers every operation and the event loop runs every
\* continuation that is ready: a handler that can take a step takes it.
LiveSpec == Spec /\ \A p \in Procs : WF_vars(HandlerStep(p))

\* ------------------------------------------- allocation on any inventory

\* SpotAllocationService.allocateSpot called against an arbitrary state of
\* the spot collection: every spot AVAILABLE, OCCUPIED or in MAINTENANCE.
InitAlloc ==
  /\ vehicles = [p \in Plates |-> NoVehicle]
  /\ spots \in [SpotIds -> {[status |-> st, current_vehicle_id |-> IF st = "OCCUPIED" THEN "P1" ELSE "NONE"] :
                              st \in SpotStatuses}]
  /\ transactions = <<>>
  /\ lot = CountersOf(spots)
  /\ rateCards = PricingExample
  /\ now = MsPerMinute
  /\ ticks = 0
  /\ task = [p \in Procs |-> IdleTask]
  /\ started = 0
  /\ admitted = 0
  /\ rateLimiter = NewRateLimiter
  /\ retry = NoRetry

Allocate(p) ==
  /\ task[p].pc = "idle"
  /\ \E vt \in VehicleTypes :
       task' = [task EXCEPT ![p].pc = "allocated", ![p].vehicle_type = vt,
                            ![p].allocatedSpot = allocateSpot(spots, vt)]
  /\ UNCHANGED <<Db, Env>>

\* Every order in which the documents of a set can be handed over.
RECURSIVE Orderings(_)
Orderings(S) ==
  IF S = {} THEN {<<>>}
  ELSE UNION {{<<s>> \o rest : rest \in Orderings(S \ {s})} : s \in S}

\* spotAllocator.selectOptimalSpot called directly with the AVAILABLE spots
\* of the collection, of every type, in an arbitrary order (one call at a time).
Select(p) ==
  /\ task[p].pc = "idle"
  /\ \A q \in Procs : task[q].pc # "selected"
  /\ \E vt \in VehicleTypes, order \in Orderings({s \in SpotIds : spots[s].status = "AVAILABLE"}) :
       task' = [task EXCEPT ![p].pc = "selected", ![p].vehicle_type = vt,
                            ![p].availableSpots = order,
                            ![p].allocatedSpot = selectOptimalSpot(spots, vt, order)]
  /\ UNCHANGED <<Db, Env>>

NextAlloc == \E p \in Procs : Allocate(p) \/ Select(p)

AllocSpec == InitAlloc /\ [][NextAlloc]_vars

\* ------------------------------------------- requests served one at a time

\* The service starts on any provisioned inventory: every spot in service
\* (AVAILABLE) or not (MAINTENANCE), no vehicle known.
InitSeq ==
  /\ vehicles = [p \in Plates |-> NoVehicle]
  /\ spots \in [SpotIds -> {[status |-> st, current_vehicle_id |-> "NONE"] :
                              st \in {"AVAILABLE", "MAINTENANCE"}}]
  /\ transactions = <<>>
  /\ lot = CountersOf(spots)
  /\ rateCards = PricingExample
  /\ now = MsPerMinute
  /\ ticks = 0
  /\ task = [p \in Procs |-> IdleTask]
  /\ started = 0
  /\ admitted = 0
  /\ rateLimiter = NewRateLimiter
  /\ retry = NoRetry

AllIdle == \A p \in Procs : task[p].pc = "idle"

\* A request is sent only after the previous one has been answered.
NextSeq ==
  \/ Tick
  \/ \E p \in Procs :
       \/ (AllIdle /\ StartEntry(p)) \/ (AllIdle /\ StartExit(p))
       \/ EntryFindVehicle(p) \/ EntryCreateVehicle(p) \/ EntryAllocateSpot(p)
       \/ EntryCreateTransaction(p) \/ EntryOccupySpot(p) \/ EntryMarkParked(p) \/ EntryUpdateLot(p)
       \/ ExitFindVehicle(p) \/ ExitFindTransaction(p) \/ ExitCalculateFee(p)
       \/ ExitCloseTransaction(p) \/ ExitReleaseSpot(p) \/ ExitMarkLeft(p) \/ ExitUpdateLot(p)
       \/ Return(p)

SeqSpec == InitSeq /\ [][NextSeq]_vars

\* ------------------------------- the request surface, one request at a time

\* Values of vehicle_type that are not one of the three vehicle types.
InvalidTypes == {"TRUCK", "car"}

\* validators.isValidVehicleType: exact, case-sensitive membership.
isValidVehicleType(vehicleType) == vehicleType \in {"MOTORCYCLE", "CAR", "BUS"}

\* entryValidator.validateEntryRequest on a body whose other fields are
\* well formed: the error code it throws, or OK.  The sanitized vehicle_type
\* (trim, upper case) of an accepted body is the value itself.
validateEntryRequest(vehicle_type) ==
  IF isValidVehicleType(vehicle_type) THEN "OK" ELSE "INVALID_ENTRY_REQUEST"

\* ParkingController.vehicleEntry: validateEntryRequest(req.body), then
\* entryService.processEntry; a validation error goes to the error handler.
vehicleEntry(p) ==
  /\ Quiet /\ Free(p)
  /\ started < MaxRequests
  /\ \E plate \in Plates, vt \in RequestTypes \cup InvalidTypes :
       LET request == [IdleTask EXCEPT !.op = "ENTRY", !.license_plate = plate,
                                       !.vehicle_type = vt] IN
       task' = [task EXCEPT ![p] =
                  IF validateEntryRequest(vt) = "OK"
                    THEN [request EXCEPT !.pc = "E1"]
                    ELSE [request EXCEPT !.pc = "done", !.result = validateEntryRequest(vt)]]
  /\ started' = started + 1
  /\ UNCHANGED <<Db, now, ticks, admitted, rateLimiter, retry>>

\* A request for ExitService.getExitEstimate(licensePlate).
StartEstimate(p) ==
  /\ Quiet /\ Free(p)
  /\ started < MaxRequests
  /\ \E plate \in Plates :
       task' = [task EXCEPT ![p] = [IdleTask EXCEPT !.pc = "G1", !.op = "ESTIMATE",
                                                    !.license_plate = plate]]
  /\ started' = started + 1
  /\ UNCHANGED <<Db, now, ticks, admitted, rateLimiter, retry>>

\* getExitEstimate: findByLicensePlate; a missing vehicle and a vehicle that
\* is not parked are both VEHICLE_NOT_FOUND.
EstimateFindVehicle(p) ==
  LET vehicle == vehicles[task[p].license_plate] IN
  /\ Quiet /\ task[p].pc = "G1"
  /\ IF vehicle = NoVehicle \/ ~vehicle.is_currently_parked
       THEN Finish(p, "VEHICLE_NOT_FOUND")
     ELSE task' = [task EXCEPT ![p].pc = "G2", ![p].vehicle = vehicle]
  /\ UNCHANGED <<Db, Env>>

\* getExitEstimate: findActiveByVehicleId.
EstimateFindTransaction(p) ==
  /\ Quiet /\ task[p].pc = "G2"
  /\ IF OpenTxOf(task[p].license_plate) = {}
       THEN Finish(p, "TRANSACTION_NOT_FOUND")
     ELSE \E t \in OpenTxOf(task[p].license_plate) :
            task' = [task EXCEPT ![p].pc = "G3", ![p].transaction = t,
                                 ![p].entryTime = transactions[t].entry_time,
                                 ![p].allocatedSpot = transactions[t].spot_id]
  /\ UNCHANGED <<Db, Env>>

\* EstimateCalculateFee storing its estimate in the transaction, as an Exit
\* would.
EstimateCalculateFee_ClosesTransaction(p) ==
  LET rateCard == rateCards[task[p].vehicle.vehicle_type]
      feeDetails == calculateParkingFee(task[p].entryTime, now, rateCard) IN
  /\ Quiet /\ task[p].pc = "G3"
  /\ IF rateCard = NoRateCard THEN Finish(p, "DATABASE_ERROR") /\ UNCHANGED transactions
     ELSE IF ~feeDetails.ok THEN Finish(p, "INVALID_INTERVAL") /\ UNCHANGED transactions
     ELSE /\ task' = [task EXCEPT ![p].pc = "done", ![p].result = "SUCCESS",
                                  ![p].exitTime = now]
          /\ transactions' = updateExit(transactions, task[p].transaction,
               [exit_time |-> now, duration_minutes |-> feeDetails.duration_minutes,
                parking_fee |-> feeDetails.parking_fee, payment_status |-> "PENDING"])
  /\ UNCHANGED <<vehicles, spots, lot, rateCards, Env>>

\* getExitEstimate: findByVehicleType, `currentTime = new Date()`,
\* feeCalculationService.calculateFee, and the estimate is returned.
EstimateCalculateFee(p) ==
  LET rateCard == rateCards[task[p].vehicle.vehicle_type]
      feeDetails == calculateParkingFee(task[p].entryTime, now, rateCard) IN
  /\ Quiet /\ task[p].pc = "G3"
  /\ IF rateCard = NoRateCard THEN Finish(p, "DATABASE_ERROR")
     ELSE IF ~feeDetails.ok THEN Finish(p, "INVALID_INTERVAL")
     ELSE task' = [task EXCEPT ![p].pc = "done", ![p].result = "SUCCESS",
                               ![p].exitTime = now,
                               ![p].feeDetails = [duration_minutes |-> feeDetails.duration_minutes,
                                                  parking_fee |-> feeDetails.parking_fee]]
  /\ UNCHANGED <<Db, Env>>

\* The rate card collection is filled by the operator, not by the service:
\* the card of a vehicle type may be missing.
InitApi ==
  /\ vehicles = [p \in Plates |-> NoVehicle]
  /\ spots = [s \in SpotIds |-> [status |-> InitialStatus[s], current_vehicle_id |-> "NONE"]]
  /\ transactions = <<>>
  /\ lot = CountersOf(spots)
  /\ rateCards \in {[t \in VehicleTypes |-> IF t \in missing THEN NoRateCard
                                            ELSE PricingExample[t]] :
                      missing \in SUBSET RequestTypes}
  /\ now = MsPerMinute
  /\ ticks = 0
  /\ task = [p \in Procs |-> IdleTask]
  /\ started = 0
  /\ admitted = 0
  /\ rateLimiter = NewRateLimiter
  /\ retry = NoRetry

NextApi ==
  \/ Tick
  \/ \E p \in Procs :
       \/ (AllIdle /\ vehicleEntry(p)) \/ (AllIdle /\ StartExit(p))
       \/ (AllIdle /\ StartEstimate(p))
       \/ EntryFindVehicle(p) \/ EntryCreateVehicle(p) \/ EntryAllocateSpot(p)
       \/ EntryCreateTransaction(p) \/ EntryOccupySpot(p) \/ EntryMarkParked(p) \/ EntryUpdateLot(p)
       \/ ExitFindVehicle(p) \/ ExitFindTransaction(p) \/ ExitCalculateFee(p)
       \/ ExitCloseTransaction(p) \/ ExitReleaseSpot(p) \/ ExitMarkLeft(p) \/ ExitUpdateLot(p)
       \/ EstimateFindVehicle(p) \/ EstimateFindTransaction(p) \/ EstimateCalculateFee(p)
       \/ Return(p)

ApiSpec == InitApi /\ [][NextApi]_vars

\* ------------------------------------------- requests at the rate limiter

\* A request reaches `app.use(rateLimiter)`.  The heavy client K1 goes on for
\* MaxRejected requests beyond the limit of a window, the keyless client
\* sends at most LightLoad requests in a window.
RateLimit ==
  \E apiKey \in ApiKeys, ip \in IpAddresses, runCleanup \in BOOLEAN :
    LET client == clientId(apiKey, ip)
        found == rateLimiter.requests[client] IN
    /\ \/ windowExpired(found, now)
       \/ found.count < (IF apiKey # "NONE" THEN maxRequests + MaxRejected ELSE LightLoad)
    /\ rateLimiter' = middleware(rateLimiter, client, now, runCleanup)
    /\ UNCHANGED <<Db, now, ticks, task, started, admitted, retry>>

\* The wall clock advances by a fraction of the window.
WindowTick ==
  /\ ticks < MaxWindowTicks
  /\ now' = now + windowMs \div TicksPerWindow
  /\ ticks' = ticks + 1
  /\ UNCHANGED <<Db, task, started, admitted, rateLimiter, retry>>

NextLimiter == RateLimit \/ WindowTick

LimiterSpec == Init /\ [][NextLimiter]_vars

\* ----------------------------------------------- fee computation on any input

\* Rate cards the schema accepts (amounts in whole cents, daily_max_rate null
\* or >= hourly_rate), in mills.
RateCardInputs ==
  {rc \in [hourly_rate : {5000, 8000}, daily_max_rate : {Null, 20000, 50000},
           grace_period_minutes : {0, 15}, rounding_strategy : {"CEILING", "FLOOR", "ROUND"}] :
     rc.daily_max_rate = Null \/ rc.daily_max_rate >= rc.hourly_rate}

\* Entry timestamps (ms) and the distance from entry to exit (ms): exit before
\* entry, exit at entry, stays within, at and beyond the grace period, with
\* and without a fraction of a minute, up to a stay that reaches the daily cap.
FeeEntryTimes == {MsPerMinute, 600 * MsPerMinute}
FeeIntervals ==
  {-MsPerMinute, 0, MsPerMinute \div 2, 10 * MsPerMinute, 15 * MsPerMinute,
   15 * MsPerMinute + MsPerMinute \div 2, 16 * MsPerMinute, 45 * MsPerMinute,
   75 * MsPerMinute, 90 * MsPerMinute, 105 * MsPerMinute, 155 * MsPerMinute,
   400 * MsPerMinute}

InitFee ==
  /\ vehicles = [p \in Plates |-> NoVehicle]
  /\ spots = [s \in SpotIds |-> [status |-> InitialStatus[s], current_vehicle_id |-> "NONE"]]
  /\ transactions = <<>>
  /\ lot = CountersOf(spots)
  /\ rateCards \in {[t \in VehicleTypes |-> rc] : rc \in RateCardInputs}
  /\ now = MsPerMinute
  /\ ticks = 0
  /\ task = [p \in Procs |-> IdleTask]
  /\ started = 0
  /\ admitted = 0
  /\ rateLimiter = NewRateLimiter
  /\ retry = NoRetry

\* feeCalculationService.calculateFee(vehicleType, entryTime, exitTime,
\* rateCard): the breakdown of calculateParkingFee, or its error.
ComputeFee(p) ==
  /\ task[p].pc = "idle"
  /\ \E entryTime \in FeeEntryTimes, interval \in FeeIntervals :
       LET exitTime == entryTime + interval
           feeDetails == calculateParkingFee(entryTime, exitTime, rateCards["CAR"]) IN
       task' = [task EXCEPT ![p].pc = "computed", ![p].vehicle_type = "CAR",
                            ![p].entryTime = entryTime, ![p].exitTime = exitTime,
                            ![p].feeDetails = IF feeDetails.ok THEN feeDetails ELSE NoFee,
                            ![p].result = IF feeDetails.ok THEN "SUCCESS" ELSE "INVALID_INTERVAL"]
  /\ UNCHANGED <<Db, Env>>

NextFee == \E p \in Procs : ComputeFee(p)

FeeSpec == InitFee /\ [][NextFee]_vars

\* ------------------------------------- fee computation with any strategy

\* Rate card objects as a caller of calculateParkingFee can pass them: the
\* rounding_strategy may be missing ("UNDEFINED"), null ("NULL") or a name the
\* switch does not know.
RoundingStrategies == {"CEILING", "FLOOR", "ROUND"}
AnyStrategyRateCards ==
  [hourly_rate : {5000, 8000}, daily_max_rate : {Null, 20000}, grace_period_minutes : {0, 15},
   rounding_strategy : RoundingStrategies \cup {"UNDEFINED", "NULL", "TRUNCATE"}]

InitAnyStrategy ==
  /\ vehicles = [p \in Plates |-> NoVehicle]
  /\ spots = [s \in SpotIds |-> [status |-> InitialStatus[s], current_vehicle_id |-> "NONE"]]
  /\ transactions = <<>>
  /\ lot = CountersOf(spots)
  /\ rateCards \in {[t \in VehicleTypes |-> rc] : rc \in AnyStrategyRateCards}
  /\ now = MsPerMinute
  /\ ticks = 0
  /\ task = [p \in Procs |-> IdleTask]
  /\ started = 0
  /\ admitted = 0
  /\ rateLimiter = NewRateLimiter
  /\ retry = NoRetry

AnyStrategySpec == InitAnyStrategy /\ [][NextFee]_vars

\* --------------------------------------------- retries of an operation

\* Values fn resolves with; the error of its k-th call is identified by k.
FnValues == {1, 2}
InitialDelays == {<<>>, <<250>>, <<0>>}

\* A caller invokes retryWithBackoff: the loop starts at attempt 1, and with
\* maxAttempts < 1 it is skipped and `throw lastError` throws undefined.
StartRetry ==
  /\ retry.pc = "idle"
  /\ \E maxArg \in {<<>>} \cup {<<m>> : m \in 0..MaxAttempts}, delayArg \in InitialDelays :
       LET maxAttempts == parameter(maxArg, defaultMaxAttempts)
           initialDelay == parameter(delayArg, defaultInitialDelay) IN
       retry' = [NoRetry EXCEPT !.pc = IF 1 <= maxAttempts THEN "call" ELSE "thrown",
                                !.maxAttempts = maxAttempts, !.initialDelay = initialDelay,
                                !.attempt = 1]
  /\ UNCHANGED <<Db, task, now, ticks, started, admitted, rateLimiter>>

\* `return await fn()` and the catch block: fn resolves and its value is
\* returned, or it rejects, the error is kept, and the loop sleeps when
\* attempts remain and otherwise ends and throws the error kept.
CallFn ==
  /\ retry.pc = "call"
  /\ \E ok \in BOOLEAN, value \in FnValues :
       LET error == Len(retry.calls) + 1 IN
       retry' =
         IF ok
           THEN [retry EXCEPT !.calls = Append(@, [ok |-> TRUE, value |-> value]),
                              !.result = value, !.pc = "returned"]
         ELSE IF retry.attempt < retry.maxAttempts
           THEN [retry EXCEPT !.calls = Append(@, [ok |-> FALSE, value |-> error]),
                              !.lastError = error,
                              !.delays = Append(@, backoffDelay(retry.initialDelay, retry.attempt)),
                              !.pc = "sleep"]
         ELSE [retry EXCEPT !.calls = Append(@, [ok |-> FALSE, value |-> error]),
                            !.lastError = error, !.attempt = @ + 1,
                            !.thrown = error, !.pc = "thrown"]
  /\ UNCHANGED <<Db, task, now, ticks, started, admitted, rateLimiter>>

\* The timer of sleep(delay) fires and the loop goes to the next attempt.
Wake ==
  /\ retry.pc = "sleep"
  /\ retry' = [retry EXCEPT !.attempt = @ + 1, !.pc = "call"]
  /\ UNCHANGED <<Db, task, now, ticks, started, admitted, rateLimiter>>

NextRetry == StartRetry \/ CallFn \/ Wake

\* The promise of fn settles and the timer of sleep fires: a continuation
\* that is ready is run by the event loop.
RetrySpec == Init /\ [][NextRetry]_vars /\ WF_vars(CallFn) /\ WF_vars(Wake)

\* ================================================================ claims

\* C1: no parking spot is referenced by the OPEN transactions of two
\* different vehicles, in any reachable state.
C1_SpotHeldByOneVehicle ==
  \A t1 \in TxIds, t2 \in TxIds :
    (IsOpen(t1) /\ IsOpen(t2) /\ transactions[t1].spot_id = transactions[t2].spot_id)
      => transactions[t1].vehicle_id = transactions[t2].vehicle_id

\* C2: at most one OPEN transaction (exit_time = null) exists per vehicle at
\* any instant.
C2_OneOpenTransactionPerVehicle ==
  \A plate \in Plates : Count(OpenTxOf(plate)) <= 1

\* C3: in every reachable state, also between the steps of an in-flight
\* request, a spot is OCCUPIED if and only if an OPEN transaction references it.
C3_OccupiedIffOpenTransaction ==
  \A s \in SpotIds : (spots[s].status = "OCCUPIED") <=> (OpenTxOn(s) # {})

\* C4: N entry requests of one vehicle type (here BUS, one plate each) against
\* M < N available spots of an eligible type: exactly M of them succeed, the
\* others are answered NO_SPOT_AVAILABLE, whatever the interleaving.
BusSpotsInService == {s \in SpotIds : spot_type[s] = "BUS" /\ InitialStatus[s] = "AVAILABLE"}

OnlyBusEntries ==
  /\ AllIdle
  /\ started = Count(Plates)
  /\ \A plate \in Plates : vehicles[plate].vehicle_type = "BUS"

C4_ExactlyMSucceed ==
  (OnlyBusEntries /\ Count(BusSpotsInService) < started) => admitted = Count(BusSpotsInService)

\* C5: a transaction is closed exactly once: once exit_time, duration_minutes
\* and parking_fee are set no step changes them, and no exit closes a
\* transaction that is already closed.
C5_ClosedExactlyOnce ==
  [][ /\ \A t \in TxIds : ~IsOpen(t) => transactions'[t] = transactions[t]
      /\ \A p \in Procs :
           (task[p].pc = "X5" /\ task'[p].pc = "X6") => IsOpen(task[p].transaction) ]_vars

\* C6: when every request has completed, a spot has an occupant
\* (current_vehicle_id set) if and only if its status is OCCUPIED.
C6_OccupantIffOccupied ==
  AllIdle => \A s \in SpotIds :
               (spots[s].current_vehicle_id # "NONE") <=> (spots[s].status = "OCCUPIED")

\* C7: in every reachable state the lot counters of each type equal the
\* number of OCCUPIED and of AVAILABLE spots of that type.
C7_CountersMatchSpots == lot = CountersOf(spots)

\* C8: an entry for a vehicle that holds an OPEN transaction is answered
\* VEHICLE_ALREADY_PARKED and leaves the ledger and the spots untouched.
C8_SecondEntryRejected ==
  [][ \A p \in Procs :
        (task[p].pc = "E1" /\ task'[p].pc # "E1" /\ OpenTxOf(task[p].license_plate) # {})
          => /\ task'[p].pc = "done"
             /\ task'[p].result = "VEHICLE_ALREADY_PARKED"
             /\ UNCHANGED <<transactions, spots>> ]_vars

\* C9 as stated: an exit for a registered vehicle with no OPEN transaction is
\* answered TRANSACTION_NOT_FOUND.
ExitEndsAtLookup(p) ==
  /\ task[p].op = "EXIT"
  /\ task[p].pc \in {"X1", "X3"}
  /\ task'[p].pc = "done"
  /\ OpenTxOf(task[p].license_plate) = {}

C9_NoOpenTransactionNotFound ==
  [][ \A p \in Procs :
        (ExitEndsAtLookup(p) /\ vehicles[task[p].license_plate] # NoVehicle)
          => task'[p].result = "TRANSACTION_NOT_FOUND" ]_vars

\* C9 amended: an exit for a vehicle with no OPEN transaction fails without
\* touching the database: VEHICLE_NOT_FOUND at the vehicle lookup when the
\* plate is unknown, ALREADY_EXITED at the vehicle lookup when
\* is_currently_parked is false, and TRANSACTION_NOT_FOUND at the ledger
\* lookup, reached only with the flag read as true; no other step answers
\* TRANSACTION_NOT_FOUND.
C9_ExitWithoutOpenTransaction ==
  [][ \A p \in Procs :
        LET v == vehicles[task[p].license_plate] IN
        /\ (task[p].pc = "X1" /\ task'[p].pc # "X1" /\ (v = NoVehicle \/ ~v.is_currently_parked))
             => /\ task'[p].pc = "done"
                /\ task'[p].result = IF v = NoVehicle THEN "VEHICLE_NOT_FOUND" ELSE "ALREADY_EXITED"
                /\ UNCHANGED Db
        /\ (task[p].pc = "X3" /\ task'[p].pc # "X3" /\ OpenTxOf(task[p].license_plate) = {})
             => /\ task'[p].pc = "done"
                /\ task'[p].result = "TRANSACTION_NOT_FOUND"
                /\ task[p].vehicle.is_currently_parked
                /\ UNCHANGED Db
        /\ (task[p].pc # "done" /\ task'[p].pc = "done" /\ task'[p].result = "TRANSACTION_NOT_FOUND")
             => (task[p].pc = "X3" /\ OpenTxOf(task[p].license_plate) = {}) ]_vars

\* A vehicle that has parked and left (its transaction is closed, none is
\* open) asks to exit again and is answered ALREADY_EXITED.
C9_Witness ==
  \E p \in Procs :
    /\ task[p].pc = "done" /\ task[p].op = "EXIT" /\ task[p].result = "ALREADY_EXITED"
    /\ OpenTxOf(task[p].license_plate) = {}
    /\ \E t \in TxIds : transactions[t].vehicle_id = task[p].license_plate /\ ~IsOpen(t)

\* C10: allocation never returns a spot whose type is outside the eligible
\* set of the requested vehicle type: MOTORCYCLE -> MOTORCYCLE, CAR or BUS;
\* CAR -> CAR or BUS; BUS -> BUS only.
C10_AllocatedTypeEligible ==
  \A p \in Procs :
    (task[p].pc = "allocated" /\ task[p].allocatedSpot # Null)
      => LET st == spot_type[task[p].allocatedSpot] IN
         /\ task[p].vehicle_type = "MOTORCYCLE" => st \in {"MOTORCYCLE", "CAR", "BUS"}
         /\ task[p].vehicle_type = "CAR" => st \in {"CAR", "BUS"}
         /\ task[p].vehicle_type = "BUS" => st = "BUS"

\* A CAR is given a BUS spot although a MOTORCYCLE spot is AVAILABLE.
C10_Witness ==
  \E p \in Procs :
    /\ task[p].pc = "allocated" /\ task[p].vehicle_type = "CAR"
    /\ task[p].allocatedSpot # Null /\ spot_type[task[p].allocatedSpot] = "BUS"
    /\ \E s \in SpotIds : spot_type[s] = "MOTORCYCLE" /\ spots[s].status = "AVAILABLE"

\* The candidates of an allocation: the AVAILABLE spots of an eligible type.
Candidates(vehicleType) ==
  {s \in SpotIds : spots[s].status = "AVAILABLE" /\ spot_type[s] \in getEligibleSpotTypes(vehicleType)}

SizePriority(s) == CASE spot_type[s] = "MOTORCYCLE" -> 1 [] spot_type[s] = "CAR" -> 2 [] OTHER -> 3

\* a comes before b in the order (floor, size priority, spot number).
LexBefore(a, b) ==
  \/ floor_number[a] < floor_number[b]
  \/ floor_number[a] = floor_number[b] /\ SizePriority(a) < SizePriority(b)
  \/ floor_number[a] = floor_number[b] /\ SizePriority(a) = SizePriority(b)
       /\ spot_number[a] < spot_number[b]

C12_BestFit ==
  \A p \in Procs :
    (task[p].pc = "allocated" /\ task[p].allocatedSpot # Null)
      => \A o \in Candidates(task[p].vehicle_type) :
           SizePriority(o) >= SizePriority(task[p].allocatedSpot)

\* E3 is taken by p as the third request of a behaviour whose first two were
\* the entry that registered the vehicle and opened transaction 1 and the
\* exit that closed it; p asks for the same vehicle type.
EntryAfterRoundTrip(p) ==
  /\ task[p].pc = "E3" /\ task'[p].pc # "E3"
  /\ started = 3 /\ Len(transactions) = 1 /\ ~IsOpen(1)
  /\ vehicles[transactions[1].vehicle_id].vehicle_type = task[p].vehicle_type

\* C13: an Entry followed by the Exit of the same vehicle leaves the allocated
\* spot AVAILABLE, and the next Entry of the same vehicle type against the
\* otherwise unchanged inventory is given that same spot (requests served one
\* after the other, on any initial inventory).
C13_ReleaseRoundTrip ==
  /\ [](\A p \in Procs :
          (task[p].pc = "done" /\ task[p].op = "EXIT" /\ task[p].result = "SUCCESS" /\ started = 2)
            => spots[transactions[1].spot_id].status = "AVAILABLE")
  /\ [][ \A p \in Procs :
           EntryAfterRoundTrip(p)
             => /\ task'[p].pc = "E4"
                /\ task'[p].allocatedSpot = transactions[1].spot_id ]_vars

\* After an entry and the exit of the same vehicle, a third request, an entry
\* of the same vehicle type, has been given the spot of the closed transaction.
C13_Witness ==
  \E p \in Procs :
    /\ task[p].pc = "E4" /\ started = 3
    /\ Len(transactions) = 1 /\ ~IsOpen(1)
    /\ vehicles[transactions[1].vehicle_id].vehicle_type = task[p].vehicle_type
    /\ task[p].allocatedSpot = transactions[1].spot_id

\* C14: for a fixed state of the spots and a fixed vehicle type,
\* selectOptimalSpot returns the same spot in whatever order the available
\* spots are handed to it.
C14_SelectionIgnoresOrder ==
  \A p \in Procs :
    task[p].pc = "selected" =>
      \A order \in Orderings({task[p].availableSpots[i] : i \in 1..Len(task[p].availableSpots)}) :
        selectOptimalSpot(spots, task[p].vehicle_type, order) = task[p].allocatedSpot

\* Several eligible spots were handed over out of order: the spot selected is
\* neither the first nor the last of the array.
C14_Witness ==
  \E p \in Procs :
    /\ task[p].pc = "selected" /\ task[p].vehicle_type = "MOTORCYCLE"
    /\ Len(task[p].availableSpots) >= 3
    /\ task[p].allocatedSpot # Null
    /\ task[p].allocatedSpot # task[p].availableSpots[1]
    /\ task[p].allocatedSpot # task[p].availableSpots[Len(task[p].availableSpots)]

\* A fee computation that returned a breakdown, and the whole minutes of its
\* interval.
Computed(p) == task[p].pc = "computed" /\ task[p].result = "SUCCESS"

StayMinutes(p) == (task[p].exitTime - task[p].entryTime) \div MsPerMinute

\* u is adjusted / 60 rounded by the strategy.
RoundedBy(strategy, adjusted, u) ==
  CASE strategy = "CEILING" -> u * 60 >= adjusted /\ (u - 1) * 60 < adjusted
    [] strategy = "FLOOR" -> u * 60 <= adjusted /\ (u + 1) * 60 > adjusted
    [] OTHER -> 2 * adjusted >= 2 * u * 60 - 60 /\ 2 * adjusted < 2 * u * 60 + 60

\* C15: for every duration greater than the grace period, base_fee is
\* hourly_units * hourly_rate, hourly_units being (duration - grace) / 60
\* rounded up (CEILING), truncated (FLOOR) or rounded to nearest with .5 up
\* (ROUND); 90 adjusted minutes give 2, 1 and 2 units; 155 minutes at 8.00/h,
\* grace 15, CEILING give 140 adjusted minutes, 3 units and a fee of 24.00.
C15_HourlyUnitsAndBaseFee ==
  \A p \in Procs :
    LET rc == rateCards[task[p].vehicle_type]
        fd == task[p].feeDetails
        adjusted == StayMinutes(p) - rc.grace_period_minutes IN
    (Computed(p) /\ StayMinutes(p) > rc.grace_period_minutes) =>
      /\ fd.adjusted_minutes = adjusted
      /\ RoundedBy(rc.rounding_strategy, adjusted, fd.hourly_units)
      /\ fd.base_fee = fd.hourly_units * rc.hourly_rate
      /\ adjusted = 90 =>
           fd.hourly_units = (CASE rc.rounding_strategy = "CEILING" -> 2
                                [] rc.rounding_strategy = "FLOOR" -> 1
                                [] OTHER -> 2)
      /\ (StayMinutes(p) = 155 /\ rc.hourly_rate = 8000 /\ rc.grace_period_minutes = 15
            /\ rc.rounding_strategy = "CEILING" /\ rc.daily_max_rate = 50000)
           => (fd.adjusted_minutes = 140 /\ fd.hourly_units = 3 /\ fd.parking_fee = 24000
               /\ ~fd.daily_cap_applied)

\* A stay of 45 minutes with a grace period of 15 under ROUND: 30 adjusted
\* minutes, half an hour, billed as one unit.
C15_Witness ==
  \E p \in Procs :
    /\ Computed(p) /\ StayMinutes(p) = 45
    /\ rateCards[task[p].vehicle_type].grace_period_minutes = 15
    /\ rateCards[task[p].vehicle_type].rounding_strategy = "ROUND"
    /\ task[p].feeDetails.hourly_units = 1

\* C16: for every rate card and every interval whose duration in minutes is at
\* most the grace period (the grace period itself included) the fee is 0, with
\* 0 hourly units, a base fee of 0 and daily_cap_applied false.
C16_GracePeriodIsFree ==
  \A p \in Procs :
    LET rc == rateCards[task[p].vehicle_type]
        fd == task[p].feeDetails IN
    (Computed(p) /\ StayMinutes(p) <= rc.grace_period_minutes) =>
      /\ fd.parking_fee = 0 /\ fd.hourly_units = 0 /\ fd.base_fee = 0
      /\ fd.daily_cap_applied = FALSE

\* A stay of exactly the grace period (15 minutes) under FLOOR, and on another
\* handler a stay of 10 minutes: both free.
C16_Witness ==
  \E p \in Procs, q \in Procs :
    /\ Computed(p) /\ StayMinutes(p) = 15 /\ task[p].feeDetails.parking_fee = 0
    /\ rateCards[task[p].vehicle_type].grace_period_minutes = 15
    /\ rateCards[task[p].vehicle_type].rounding_strategy = "FLOOR"
    /\ Computed(q) /\ StayMinutes(q) = 10 /\ task[q].feeDetails.parking_fee = 0

\* C17: with a daily_max_rate on the rate card the fee never exceeds it: when
\* base_fee > daily_max_rate the fee is daily_max_rate and daily_cap_applied
\* is true, otherwise the fee is base_fee and daily_cap_applied is false.
C17_DailyCap ==
  \A p \in Procs :
    LET rc == rateCards[task[p].vehicle_type]
        fd == task[p].feeDetails IN
    (Computed(p) /\ rc.daily_max_rate # Null) =>
      /\ fd.parking_fee <= rc.daily_max_rate
      /\ IF fd.base_fee > rc.daily_max_rate
           THEN fd.parking_fee = rc.daily_max_rate /\ fd.daily_cap_applied = TRUE
         ELSE fd.parking_fee = fd.base_fee /\ fd.daily_cap_applied = FALSE

\* 155 minutes at 8.00/h with a cap of 20.00: a base fee of 24.00 (or 16.00
\* under FLOOR, below the cap) and, when above, a fee of 20.00.
C17_Witness ==
  \E p \in Procs :
    /\ Computed(p) /\ rateCards[task[p].vehicle_type].daily_max_rate = 20000
    /\ task[p].feeDetails.base_fee = 24000
    /\ task[p].feeDetails.parking_fee = 20000 /\ task[p].feeDetails.daily_cap_applied

\* C18: for a fixed rate card and entry time a later exit never yields a
\* smaller fee than an earlier one, under each rounding strategy, with or
\* without a daily cap.
C18_MonotonicBilling ==
  \A p \in Procs, q \in Procs :
    (Computed(p) /\ Computed(q) /\ task[p].entryTime = task[q].entryTime
       /\ task[p].exitTime <= task[q].exitTime)
      => task[p].feeDetails.parking_fee <= task[q].feeDetails.parking_fee

\* Two stays from the same entry time, the longer one capped: 155 minutes
\* billed below the cap, 400 minutes billed at the cap.
C18_Witness ==
  \E p \in Procs, q \in Procs :
    /\ Computed(p) /\ Computed(q) /\ task[p].entryTime = task[q].entryTime
    /\ StayMinutes(p) = 155 /\ StayMinutes(q) = 400
    /\ ~task[p].feeDetails.daily_cap_applied /\ task[q].feeDetails.daily_cap_applied
    /\ task[p].feeDetails.parking_fee < task[q].feeDetails.parking_fee

\* C19: every interval with exit_time <= entry_time (exit_time = entry_time
\* included) is rejected with an error and no fee breakdown is returned.
C19_InvalidIntervalRejected ==
  \A p \in Procs :
    (task[p].pc = "computed" /\ task[p].exitTime <= task[p].entryTime)
      => task[p].result = "INVALID_INTERVAL" /\ task[p].feeDetails = NoFee

\* An interval with exit_time equal to entry_time has been rejected, and so
\* has one with exit_time before entry_time.
C19_Witness ==
  \E p \in Procs, q \in Procs :
    /\ task[p].pc = "computed" /\ task[p].exitTime = task[p].entryTime
    /\ task[p].result = "INVALID_INTERVAL"
    /\ task[q].pc = "computed" /\ task[q].exitTime < task[q].entryTime
    /\ task[q].result = "INVALID_INTERVAL"

\* C20: every CLOSED transaction has exit_time > entry_time, after any
\* sequence (and any interleaving) of Entry and Exit operations.
C20_ClosedExitAfterEntry ==
  \A t \in TxIds : ~IsOpen(t) => transactions[t].exit_time > transactions[t].entry_time

\* A transaction has been closed by an exit that has just been answered.
C20_Witness ==
  \E p \in Procs :
    /\ task[p].pc = "done" /\ task[p].op = "EXIT" /\ task[p].result = "SUCCESS"
    /\ ~IsOpen(task[p].transaction)
    /\ transactions[task[p].transaction].exit_time = task[p].exitTime


C22_NoRateCardNoFee ==
  /\ [][\A p \in Procs :
          (task[p].pc = "X4" /\ rateCards[task[p].vehicle.vehicle_type] = NoRateCard
             /\ task'[p] # task[p])
            => /\ task'[p].pc = "done"
               /\ task'[p].result \notin {"SUCCESS", "NO_SPOT_AVAILABLE"}
               /\ task'[p].feeDetails = NoFee
               /\ transactions' = transactions]_vars
  /\ [](\A p \in Procs :
          (task[p].pc = "done" /\ task[p].op = "EXIT" /\ task[p].result = "SUCCESS")
            => rateCards[task[p].vehicle.vehicle_type] # NoRateCard)

\* An Exit of a parked vehicle has failed for want of a rate card; its
\* transaction is still open and carries no fee.
C22_Witness ==
  \E p \in Procs :
    /\ task[p].pc = "done" /\ task[p].op = "EXIT" /\ task[p].result = "DATABASE_ERROR"
    /\ rateCards[task[p].vehicle.vehicle_type] = NoRateCard
    /\ IsOpen(task[p].transaction)
    /\ transactions[task[p].transaction].parking_fee = Null

LotFullFor(vehicleType) ==
  \A s \in SpotIds :
    spot_type[s] \in getEligibleSpotTypes(vehicleType) => spots[s].status # "AVAILABLE"

\* C24: Entry never waits for a spot.  The allocation step of an Entry taken
\* while no eligible spot is AVAILABLE ends the request with
\* NO_SPOT_AVAILABLE in that very step, and every Entry request that has been
\* started is eventually answered.
C24_EntryNeverWaits ==
  /\ [][\A p \in Procs :
          (task[p].pc = "E3" /\ LotFullFor(task[p].vehicle_type) /\ task'[p] # task[p])
            => task'[p].pc = "done" /\ task'[p].result = "NO_SPOT_AVAILABLE"]_vars
  /\ \A p \in Procs :
       (task[p].op = "ENTRY" /\ InFlight(p)) ~> (task[p].pc = "done")

\* An Entry has been answered NO_SPOT_AVAILABLE while the lot is full for its
\* vehicle type and the vehicle holding the spot has not left.
C24_Witness ==
  \E p \in Procs :
    /\ task[p].pc = "done" /\ task[p].op = "ENTRY"
    /\ task[p].result = "NO_SPOT_AVAILABLE"
    /\ LotFullFor(task[p].vehicle_type)
    /\ \E t \in TxIds : IsOpen(t)

\* ---------------------------------------------------------------------- C25
\* C25: fee computation and estimation are read-only.  No step of an exit
\* estimate, and no fee step of an Exit (the call of calculateFee), changes a
\* vehicle, a spot, a transaction or the lot counters; and when an estimate
\* has been returned its transaction is still OPEN without a fee, its spot
\* still OCCUPIED and its vehicle still parked.
C25_EstimateReadOnly ==
  /\ [][\A p \in Procs :
          ((task[p].op = "ESTIMATE" \/ task[p].pc = "X4") /\ task'[p] # task[p])
            => /\ vehicles' = vehicles /\ spots' = spots
               /\ transactions' = transactions /\ lot' = lot]_vars
  /\ [](\A p \in Procs :
          (task[p].pc = "done" /\ task[p].op = "ESTIMATE" /\ task[p].result = "SUCCESS")
            => /\ IsOpen(task[p].transaction)
               /\ transactions[task[p].transaction].parking_fee = Null
               /\ transactions[task[p].transaction].payment_status = "PENDING"
               /\ spots[task[p].allocatedSpot].status = "OCCUPIED"
               /\ vehicles[task[p].license_plate].is_currently_parked)

\* An estimate with a fee to pay has been returned for a parked vehicle, as
\* the last of several requests.
C25_Witness ==
  \E p \in Procs :
    /\ task[p].pc = "done" /\ task[p].op = "ESTIMATE" /\ task[p].result = "SUCCESS"
    /\ task[p].exitTime = now
    /\ task[p].feeDetails.parking_fee > 0
    /\ started >= 3

\* ---------------------------------------------------------------------- C26
\* C26: the references of a transaction are fixed when it is opened.  No
\* step removes a transaction or changes the spot_id, the vehicle_id or the
\* entry_time of an existing one.
C26_TransactionReferenceFixed ==
  [][/\ Len(transactions') >= Len(transactions)
     /\ \A t \in TxIds :
          /\ transactions'[t].spot_id = transactions[t].spot_id
          /\ transactions'[t].vehicle_id = transactions[t].vehicle_id
          /\ transactions'[t].entry_time = transactions[t].entry_time]_vars

\* An Exit has returned: the transaction it closed still refers to the spot,
\* the vehicle and the entry time it was opened with.
C26_Witness ==
  \E p \in Procs :
    /\ task[p].pc = "done" /\ task[p].op = "EXIT" /\ task[p].result = "SUCCESS"
    /\ ~IsOpen(task[p].transaction)
    /\ transactions[task[p].transaction].spot_id = task[p].allocatedSpot
    /\ transactions[task[p].transaction].vehicle_id = task[p].license_plate
    /\ transactions[task[p].transaction].entry_time = task[p].entryTime

C29_MaintenanceExcluded ==
  /\ [](\A vt \in VehicleTypes :
          allocateSpot(spots, vt) # Null
            => spots[allocateSpot(spots, vt)].status # "MAINTENANCE")
  /\ [][/\ \A s \in SpotIds :
             spots[s].status = "MAINTENANCE" => spots'[s].status # "OCCUPIED"
        /\ \A p \in Procs :
             (task[p].pc = "E3" /\ task'[p].pc = "E4")
               => spots[task'[p].allocatedSpot].status # "MAINTENANCE"]_vars

\* An Entry has been refused for want of a spot although a spot of an
\* eligible type exists, in MAINTENANCE.
C29_Witness ==
  \E p \in Procs :
    /\ task[p].pc = "done" /\ task[p].op = "ENTRY"
    /\ task[p].result = "NO_SPOT_AVAILABLE"
    /\ \E s \in SpotIds :
         /\ spot_type[s] \in getEligibleSpotTypes(task[p].vehicle_type)
         /\ spots[s].status = "MAINTENANCE"

\* ---------------------------------------------------------------------- C30
\* The request just answered by the rate limiter was one of client c.
Answered(c) == rateLimiter' # rateLimiter /\ rateLimiter'.res.client = c

\* The number of requests of client c in its current window, the answered
\* one included: one more than before while the one-minute window has not
\* elapsed, 1 otherwise.
CountInWindow(c) ==
  LET before == rateLimiter.requests[c] IN
  IF before # NoClient /\ now - before.resetTime <= 60000 THEN before.count + 1 ELSE 1

\* C30: the rate limiter admits at most 1000 requests per client and
\* one-minute window.  For every request: the count kept for the client is
\* the number of its requests in the current window, starting again at the
\* first request after the window has elapsed; the request is passed on iff
\* that number is at most 1000, and is otherwise answered 429
\* RATE_LIMIT_EXCEEDED; the remaining count reported is max(0, 1000 - count);
\* and the counts of the other clients are not touched.
C30_RateLimit ==
  [][\A c \in Clients :
       Answered(c) =>
         LET res == rateLimiter'.res
             count == rateLimiter'.requests[c].count IN
         /\ count = CountInWindow(c)
         /\ res.passed <=> count <= 1000
         /\ ~res.passed => res.status = 429 /\ res.code = "RATE_LIMIT_EXCEEDED"
         /\ res.remaining = (IF 1000 - count > 0 THEN 1000 - count ELSE 0)
         /\ \A d \in Clients \ {c} :
              rateLimiter'.requests[d] \in {rateLimiter.requests[d], NoClient}]_vars

\* The 1001st request of a client within one window has been rejected.
C30_Witness ==
  /\ rateLimiter.res.client = "K1"
  /\ rateLimiter.requests["K1"].count = 1001
  /\ rateLimiter.res.status = 429 /\ ~rateLimiter.res.passed
  /\ rateLimiter.res.remaining = 0

\* ---------------------------------------------------------------------- C31
\* The codes an Exit can end with before its first write.
ExitErrors ==
  {"VEHICLE_NOT_FOUND", "ALREADY_EXITED", "TRANSACTION_NOT_FOUND", "DATABASE_ERROR",
   "INVALID_INTERVAL"}

\* C31: an Exit that ends in an error changes nothing.  An Exit ends in an
\* error only at one of its three reading steps (vehicle lookup, transaction
\* lookup, rate card and fee), with one of the codes above; and the start of
\* an Exit and each of these steps leave vehicles, spots, transactions and
\* lot counters as they are.
C31_FailedExitChangesNothing ==
  [][\A p \in Procs :
       /\ (task'[p].op = "EXIT" /\ task'[p].pc = "done" /\ task[p].pc # "done"
             /\ task'[p].result # "SUCCESS")
            => /\ task[p].pc \in {"X1", "X3", "X4"}
               /\ task'[p].result \in ExitErrors
       /\ ((task[p].pc \in {"X1", "X3", "X4"} \/ task'[p].pc = "X1") /\ task'[p] # task[p])
            => /\ vehicles' = vehicles /\ spots' = spots
               /\ transactions' = transactions /\ lot' = lot]_vars

\* An Exit has been refused by the fee computation: the transaction it found
\* is still OPEN, its spot OCCUPIED and the vehicle parked.
C31_Witness ==
  \E p \in Procs :
    /\ task[p].pc = "done" /\ task[p].op = "EXIT" /\ task[p].result = "INVALID_INTERVAL"
    /\ IsOpen(task[p].transaction)
    /\ spots[task[p].allocatedSpot].status = "OCCUPIED"
    /\ vehicles[task[p].license_plate].is_currently_parked

\* ---------------------------------------------------------------------- C32
\* C32: whenever no request is in flight, the is_currently_parked flag of a
\* vehicle is true exactly when the vehicle has an OPEN transaction.
C32_FlagIffOpenTransaction ==
  (\A p \in Procs : task[p].pc = "idle")
    => \A plate \in Plates :
         vehicles[plate].is_currently_parked <=> OpenTxOf(plate) # {}

\* ---------------------------------------------------------------------- C33
\* C33: every lot counter, available and occupied of each type, is >= 0.
C33_CountersNonNegative ==
  \A t \in SpotTypes : lot.available[t] >= 0 /\ lot.occupied[t] >= 0

\* ---------------------------------------------------------------------- C34
\* C34: a successful Entry followed by the successful Exit of the vehicle
\* returns the lot counters to their values before the Entry.  With requests
\* served one at a time: when an Exit returns and the transaction it closed
\* is the only one ever opened, every spot is as provisioned, and the lot
\* counters are the provisioned ones, which agree with the spots.
C34_CountersRestored ==
  \A p \in Procs :
    (task[p].pc = "done" /\ task[p].op = "EXIT" /\ task[p].result = "SUCCESS"
       /\ Len(transactions) = 1)
      => lot = CountersOf(spots)

\* ---------------------------------------------------------------------- C35
\* C35: every OPEN transaction refers to a spot whose type is eligible for
\* the vehicle type recorded on the transaction's vehicle.
C35_OpenSpotFitsRecordedType ==
  \A t \in TxIds :
    IsOpen(t)
      => spot_type[transactions[t].spot_id]
           \in getEligibleSpotTypes(vehicles[transactions[t].vehicle_id].vehicle_type)

\* ---------------------------------------------------------------------- C36
\* C36: a parked vehicle can always leave: an Exit for a vehicle that has an
\* OPEN transaction and whose recorded type has a rate card succeeds whatever
\* the time elapsed since the entry, the same clock value included.  An Exit
\* that has failed has changed nothing (C31), so its transaction is still OPEN
\* when it returns.
C36_ParkedVehicleCanLeave ==
  \A p \in Procs :
    ( /\ task[p].op = "EXIT" /\ task[p].pc = "done"
      /\ OpenTxOf(task[p].license_plate) # {}
      /\ vehicles[task[p].license_plate] # NoVehicle
      /\ rateCards[vehicles[task[p].license_plate].vehicle_type] # NoRateCard )
      => task[p].result = "SUCCESS"

\* ---------------------------------------------------------------------- C37
\* C37: computeFee with a rate card whose rounding_strategy is missing or is
\* not one of CEILING, FLOOR, ROUND returns exactly what the CEILING strategy
\* returns for the same interval and rates: the same breakdown, or the same
\* rejection of the interval, and no other error.
C37_CeilingResult(p) ==
  calculateParkingFee(task[p].entryTime, task[p].exitTime,
                      [rateCards[task[p].vehicle_type] EXCEPT !.rounding_strategy = "CEILING"])

C38_Failed == {k \in 1..Len(retry.calls) : ~retry.calls[k].ok}

C38_State ==
  retry.pc # "idle" =>
    /\ Len(retry.calls) <= (IF retry.maxAttempts > 0 THEN retry.maxAttempts ELSE 0)
    /\ \A k \in 1..(Len(retry.calls) - 1) : k \in C38_Failed
    /\ retry.pc = "returned"
         => /\ Len(retry.calls) \notin C38_Failed
            /\ retry.result = retry.calls[Len(retry.calls)].value
            /\ retry.thrown = Null
    /\ (retry.pc = "thrown" /\ retry.maxAttempts >= 1)
         => /\ Len(retry.calls) = retry.maxAttempts
            /\ C38_Failed = 1..retry.maxAttempts
            /\ retry.thrown = retry.calls[retry.maxAttempts].value
            /\ retry.result = Null
    /\ Len(retry.delays) = Cardinality({k \in C38_Failed : k < retry.maxAttempts})
    /\ retry.pc = "call" => Len(retry.delays) = Len(retry.calls)
    /\ \A k \in 1..Len(retry.delays) :
         /\ retry.delays[k] = retry.initialDelay * 2^(k - 1)
         /\ k = 1 \/ retry.delays[k] = 2 * retry.delays[k - 1]

C38_RetryWithBackoff ==
  /\ []C38_State
  /\ (retry.pc \in {"call", "sleep"}) ~> (retry.pc \in {"returned", "thrown"})

\* Four attempts that all fail, with the delays 250, 500 and 1000 between
\* them, ending with the error of the fourth call.
C38_Witness ==
  /\ retry.pc = "thrown"
  /\ Len(retry.calls) = 4
  /\ retry.delays = <<250, 500, 1000>>
  /\ retry.thrown = 4

=============================================================================
